---- MODULE Spec2Model ----
(***************************************************************************)
(* State-machine model of URLShortener (src/app.js).                       *)
(*                                                                         *)
(* Strings are sequences of one-character strings, so that indexing,       *)
(* splitting, concatenation and case folding are computed, not assumed.    *)
(* The Map urlDatabase is a sequence of [key, val] entries in insertion    *)
(* order, as a JavaScript Map is.  The text of the input field is the      *)
(* input of the submit handler.  CSS class toggles, scrolling and the      *)
(* clipboard are left out: no handler reads them back.                     *)
(***************************************************************************)
EXTENDS Integers, Sequences, FiniteSets, TLC

VARIABLES
    urlDatabase,          \* this.urlDatabase: Map shortCode -> record
    nextId,               \* this.nextId
    currentFilter,        \* this.currentFilter
    submitDisabled,       \* the disabled property of the submit button
    shortenedUrlDisplay,  \* this.shortenedUrlDisplay.value
    historyList,          \* data-short-code of the rows in this.historyList
    statsText,            \* <<totalUrls.textContent, totalClicks.textContent>>
    locationHash,         \* window.location.hash
    pageLive,             \* FALSE once window.location.href was assigned
    initialRoute,         \* pending 100ms timer of handleInitialRoute
    pendingUI,            \* pending 300ms timers of shortenURL, in order
    now,                  \* the clock read by new Date(), in timer periods
    lastCall,             \* the handler that ran last, the text or short code
                          \* it worked on, and the message it passed to
                          \* showError or alert (else the fate of its window)
    regLog,               \* history: aliases of the successful registrations
    hits,                 \* history: found resolves per alias
    encIn,                \* arguments of encodeBase62 under study
    encOut                \* their results, <<>> before the call

regVars == <<urlDatabase, nextId, currentFilter, submitDisabled,
             shortenedUrlDisplay, historyList, statsText, locationHash, pageLive,
             initialRoute, pendingUI, now, lastCall, regLog, hits>>

encVars == <<encIn, encOut>>

vars == <<regVars, encVars>>

-----------------------------------------------------------------------------
(* Bounds *)

MaxRegs == 3      \* registrations explored in the registry specification
MaxVisits == 5    \* found resolves explored in the registry specification
MaxN == 4000      \* encode inputs 0..MaxN (three-symbol codes start at 3844)
MaxPairN == 130   \* encode input pairs from 1..MaxPairN and
PairMargin == 20  \* from within PairMargin of 62 * 62

-----------------------------------------------------------------------------
(* Strings *)

Digits == <<"0","1","2","3","4","5","6","7","8","9">>
Upper == <<"A","B","C","D","E","F","G","H","I","J","K","L","M",
           "N","O","P","Q","R","S","T","U","V","W","X","Y","Z">>
Lower == <<"a","b","c","d","e","f","g","h","i","j","k","l","m",
           "n","o","p","q","r","s","t","u","v","w","x","y","z">>

Range(s) == { s[i] : i \in 1..Len(s) }

\* String.prototype.toLowerCase, one character
toLowerChar(c) ==
    IF c \in Range(Upper)
    THEN Lower[CHOOSE i \in 1..Len(Upper) : Upper[i] = c]
    ELSE c

toLowerCase(s) == [i \in 1..Len(s) |-> toLowerChar(s[i])]

\* String.prototype.includes
includes(s, t) ==
    \E i \in 0..(Len(s) - Len(t)) : SubSeq(s, i + 1, i + Len(t)) = t

\* String.prototype.trim (the inputs hold no other white space than " ")
RECURSIVE trimStart(_)
trimStart(s) == IF s # <<>> /\ Head(s) = " " THEN trimStart(Tail(s)) ELSE s

RECURSIVE trimEnd(_)
trimEnd(s) ==
    IF s # <<>> /\ s[Len(s)] = " " THEN trimEnd(SubSeq(s, 1, Len(s) - 1)) ELSE s

trim(s) == trimEnd(trimStart(s))

\* String.prototype.split(sep) for a one-character separator
RECURSIVE split(_, _)
split(s, sep) ==
    IF \E i \in 1..Len(s) : s[i] = sep
    THEN LET i == CHOOSE k \in 1..Len(s) :
                      s[k] = sep /\ \A j \in 1..(k - 1) : s[j] # sep
         IN  <<SubSeq(s, 1, i - 1)>> \o split(SubSeq(s, i + 1, Len(s)), sep)
    ELSE <<s>>

-----------------------------------------------------------------------------
(* Base62 encoding *)

Base == 62

\* faulty variant: the lower-case letters before the upper-case ones
base62AlphabetLowerFirst == Digits \o Lower \o Upper

base62Alphabet ==
    <<"0","1","2","3","4","5","6","7","8","9",
      "A","B","C","D","E","F","G","H","I","J","K","L","M",
      "N","O","P","Q","R","S","T","U","V","W","X","Y","Z",
      "a","b","c","d","e","f","g","h","i","j","k","l","m",
      "n","o","p","q","r","s","t","u","v","w","x","y","z">>

\* faulty variant: the least significant symbol first
RECURSIVE encodeLoopAppend(_, _)
encodeLoopAppend(num, encoded) ==
    IF num > 0
    THEN encodeLoopAppend(num \div Base, encoded \o <<base62Alphabet[(num % Base) + 1]>>)
    ELSE encoded

\* the while loop of encodeBase62
RECURSIVE encodeLoop(_, _)
encodeLoop(num, encoded) ==
    IF num > 0
    THEN encodeLoop(num \div Base, <<base62Alphabet[(num % Base) + 1]>> \o encoded)
    ELSE encoded

\* faulty variant: no special case for 0
encodeBase62NoZero(num) == encodeLoop(num, <<>>)

encodeBase62(num) ==
    IF num = 0 THEN <<base62Alphabet[1]>> ELSE encodeLoop(num, <<>>)

-----------------------------------------------------------------------------
(* Map *)

MapHas(m, k) == \E i \in 1..Len(m) : m[i].key = k

MapIndex(m, k) == CHOOSE i \in 1..Len(m) : m[i].key = k

\* Map.prototype.get; undefined is the empty tuple
Undefined == <<>>
MapGet(m, k) == IF MapHas(m, k) THEN m[MapIndex(m, k)].val ELSE Undefined

\* Map.prototype.set: an existing key keeps its position and gets the value
MapSet(m, k, v) ==
    IF MapHas(m, k)
    THEN [m EXCEPT ![MapIndex(m, k)].val = v]
    ELSE Append(m, [key |-> k, val |-> v])

MapKeys(m) == { m[i].key : i \in 1..Len(m) }

-----------------------------------------------------------------------------
(* URL validation *)

Alnum == Range(Digits) \cup Range(Upper) \cup Range(Lower)

\* the three character classes of urlValidationRegex and \w
HostClass == Alnum \cup {"-", "@", ":", "%", ".", "_", "+", "~", "#", "="}
TldClass == Alnum \cup {"(", ")"}
TailClass == Alnum \cup {"-", "(", ")", "@", ":", "%", "_", "+", ".", "~",
                         "#", "?", "&", "/", "="}
WordClass == Alnum \cup {"_"}

HostMax == 256
TldMax == 6

startsWith(s, t) == Len(s) >= Len(t) /\ SubSeq(s, 1, Len(t)) = t

allIn(s, from, to, class) == \A i \in from..to : s[i] \in class

\* \b between s[j] and s[j+1] (or the end of the string)
wordBoundary(s, j) ==
    (s[j] \in WordClass) # (j < Len(s) /\ s[j + 1] \in WordClass)

\* this.urlValidationRegex.test(s)
urlValidationRegex(s) ==
    \E p \in {7, 8} :
      /\ startsWith(s, IF p = 7 THEN <<"h","t","t","p",":","/","/">>
                                ELSE <<"h","t","t","p","s",":","/","/">>)
      /\ \E q \in {p, p + 4} :
           /\ q = p \/ (Len(s) >= q /\ SubSeq(s, p + 1, q) = <<"w","w","w",".">>)
           /\ \E i \in (q + 1)..Len(s) :
                /\ i - q <= HostMax
                /\ allIn(s, q + 1, i, HostClass)
                /\ i + 1 <= Len(s) /\ s[i + 1] = "."
                /\ \E j \in (i + 2)..Len(s) :
                     /\ j - (i + 1) <= TldMax
                     /\ allIn(s, i + 2, j, TldClass)
                     /\ wordBoundary(s, j)
                     /\ allIn(s, j + 1, Len(s), TailClass)

\* new URL(url) does not throw.  Modelled for http(s) URLs without
\* credentials, numeric or bracketed hosts: the scheme is matched without
\* regard to case, the host up to the first "/", "?" or "#" is not empty and
\* holds no space, and what follows a ":" in it is a decimal port.
urlParses(url) ==
    LET low == toLowerCase(url)
        p == IF startsWith(low, <<"h","t","t","p","s",":","/","/">>) THEN 8
             ELSE IF startsWith(low, <<"h","t","t","p",":","/","/">>) THEN 7
             ELSE 0
        rest == SubSeq(url, p + 1, Len(url))
        stops == { i \in 1..Len(rest) : rest[i] \in {"/", "?", "#"} }
        authority == IF stops = {} THEN rest
                     ELSE SubSeq(rest, 1, (CHOOSE i \in stops : \A k \in stops : i <= k) - 1)
        parts == split(authority, ":")
    IN  /\ p # 0
        /\ parts[1] # <<>>
        /\ " " \notin Range(parts[1])
        /\ Len(parts) <= 2
        /\ Len(parts) = 2 => Range(parts[2]) \subseteq Range(Digits)

isValidURL(url) == urlParses(url) /\ urlValidationRegex(url)

\* normalizeURL: the test /^https?:\/\//i
normalizeURL(url) ==
    LET low == toLowerCase(url)
    IN  IF startsWith(low, <<"h","t","t","p",":","/","/">>)
           \/ startsWith(low, <<"h","t","t","p","s",":","/","/">>)
        THEN url
        ELSE <<"h","t","t","p","s",":","/","/">> \o url

EmptyInput == "Please enter a URL to shorten"
InvalidFormat == "Please enter a valid URL (e.g., https://example.com)"
NoError == ""

\* validateAndNormalizeURL: error is the message of the Error thrown
validateAndNormalizeURL(url) ==
    IF trim(url) = <<>>
    THEN [error |-> EmptyInput, url |-> <<>>]
    ELSE LET normalizedUrl == normalizeURL(trim(url))
         IN  IF ~isValidURL(normalizedUrl)
             THEN [error |-> InvalidFormat, url |-> <<>>]
             ELSE [error |-> NoError, url |-> normalizedUrl]

\* what the user types into the form
RawInputs ==
    { <<" ", " ">>,
      <<"a", ".", "c", "o">>,
      <<" ", "h", "t", "t", "p", "s", ":", "/", "/", "a", ".", "c", "o", " ">>,
      <<"H", "T", "T", "P", ":", "/", "/", "a", ".", "c", "o">> }

\* validateAndNormalizeURL on each of these inputs
Validated == [raw \in RawInputs |-> validateAndNormalizeURL(raw)]

-----------------------------------------------------------------------------
(* Statistics and history *)

RECURSIVE sumClicks(_)
sumClicks(m) ==
    IF m = <<>> THEN 0 ELSE m[1].val.clickCount + sumClicks(Tail(m))

\* faulty variant: the reduce skips the first record
updateStatsSkipFirst(m) ==
    <<Len(m), IF m = <<>> THEN 0 ELSE sumClicks(Tail(m))>>

\* updateStats: the texts written to totalUrls and totalClicks
updateStats(m) == <<Len(m), sumClicks(m)>>

\* the filter predicate of renderHistory
matchesFilter(entry, filter) ==
    \/ filter = <<>>
    \/ includes(toLowerCase(entry.val.originalUrl), filter)
    \/ includes(toLowerCase(entry.key), filter)

\* Array.prototype.sort with (a, b) => b.createdAt - a.createdAt: stable,
\* newest first
RECURSIVE sortNewestFirst(_)
sortNewestFirst(s) ==
    IF s = <<>> THEN <<>>
    ELSE LET front == sortNewestFirst(SubSeq(s, 1, Len(s) - 1))
             e == s[Len(s)]
             n == Cardinality({ i \in 1..Len(front) :
                                  front[i].val.createdAt >= e.val.createdAt })
         IN  SubSeq(front, 1, n) \o <<e>> \o SubSeq(front, n + 1, Len(front))

\* renderHistory: the short codes of the rows of historyList; an empty
\* database returns before the rows are written
renderHistory(m, filter, rows) ==
    IF Len(m) = 0 THEN rows
    ELSE LET filteredUrls == SelectSeq(m, LAMBDA e : matchesFilter(e, filter))
             sorted == sortNewestFirst(filteredUrls)
         IN  [i \in 1..Len(sorted) |-> sorted[i].key]

-----------------------------------------------------------------------------
(* Shortening and redirection *)

Origin == <<"h", "t", "t", "p", ":", "/", "/", "x", ".", "y">>

shortUrlOf(shortCode) == Origin \o <<"/", "#">> \o shortCode

\* extractShortCode
extractShortCode(url) ==
    IF "#" \in Range(url)
    THEN split(url, "#")[2]
    ELSE LET parts == split(url, "/") IN parts[Len(parts)]

\* faulty variant: the id is taken before the input is validated
shortenURLEarlyId(m, nid, inputValue, t) ==
    LET v == Validated[inputValue]
        shortCode == encodeBase62(nid)
    IN  IF v.error = NoError
        THEN [error |-> NoError, nextId |-> nid + 1, shortCode |-> shortCode,
              db |-> MapSet(m, shortCode, [originalUrl |-> v.url, clickCount |-> 0,
                                           createdAt |-> t, id |-> nid])]
        ELSE [error |-> v.error, nextId |-> nid + 1, shortCode |-> <<>>, db |-> m]

\* faulty variant: the id is not advanced
shortenURLSameId(m, nid, inputValue, t) ==
    LET v == Validated[inputValue]
        shortCode == encodeBase62(nid)
    IN  IF v.error = NoError
        THEN [error |-> NoError, nextId |-> nid, shortCode |-> shortCode,
              db |-> MapSet(m, shortCode, [originalUrl |-> v.url, clickCount |-> 0,
                                           createdAt |-> t, id |-> nid])]
        ELSE [error |-> v.error, nextId |-> nid, shortCode |-> <<>>, db |-> m]

\* the try block of shortenURL up to the timer: the database and counter
\* it leaves, the short code generated, and the message of the error caught
shortenURL(m, nid, inputValue, t) ==
    LET v == Validated[inputValue]
        id == nid
        shortCode == encodeBase62(id)
    IN  IF v.error = NoError
        THEN [error |-> NoError, nextId |-> nid + 1, shortCode |-> shortCode,
              db |-> MapSet(m, shortCode, [originalUrl |-> v.url, clickCount |-> 0,
                                           createdAt |-> t, id |-> id])]
        ELSE [error |-> v.error, nextId |-> nid, shortCode |-> <<>>, db |-> m]

\* faulty variant: a click counts twice
redirectToOriginalTwice(m, shortCode) ==
    IF MapHas(m, shortCode)
    THEN [found |-> TRUE,
          db |-> [m EXCEPT ![MapIndex(m, shortCode)].val.clickCount = @ + 2]]
    ELSE [found |-> FALSE, db |-> m]

\* faulty variant: a click refreshes createdAt
redirectToOriginalTouch(m, shortCode) ==
    IF MapHas(m, shortCode)
    THEN [found |-> TRUE,
          db |-> [m EXCEPT ![MapIndex(m, shortCode)].val.clickCount = @ + 1,
                           ![MapIndex(m, shortCode)].val.createdAt = @ + 1]]
    ELSE [found |-> FALSE, db |-> m]

\* faulty variant: a missing code gets a record
redirectToOriginalCreate(m, shortCode) ==
    IF MapHas(m, shortCode)
    THEN [found |-> TRUE,
          db |-> [m EXCEPT ![MapIndex(m, shortCode)].val.clickCount = @ + 1]]
    ELSE [found |-> FALSE,
          db |-> MapSet(m, shortCode, [originalUrl |-> <<>>, clickCount |-> 0,
                                       createdAt |-> 0, id |-> 0])]

\* redirectToOriginal: the lookup and the increment of clickCount
redirectToOriginal(m, shortCode) ==
    LET urlData == MapGet(m, shortCode)
    IN  IF urlData # Undefined
        THEN [found |-> TRUE,
              db |-> [m EXCEPT ![MapIndex(m, shortCode)].val.clickCount = @ + 1]]
        ELSE [found |-> FALSE, db |-> m]

\* the conditions of handleHashChange and of the timer of handleInitialRoute
hashGuard(m, hash) ==
    hash # <<>> /\ Len(hash) > 1 /\ MapHas(m, SubSeq(hash, 2, Len(hash)))

-----------------------------------------------------------------------------
(* Environment inputs *)

Hashes == { <<>>, <<"#", "1">> }

FilterInputs == { <<>>, <<"2">> }

\* window.open returns a window, returns null, or throws
PopupOutcomes == { "Opened", "Redirecting", "PleaseVisit" }

None == "none"

\* the handlers that call redirectToOriginal
ResolveOps == { "testButton", "handleHistoryAction", "handleHashChange",
                "handleInitialRoute" }

NotFound == "Short URL not found. It may have been created in a different session."

-----------------------------------------------------------------------------
(* State machine *)

\* faulty variant: the counter starts at 0
NextIdInitZero == 1 - 1

NextIdInit == 1

RegInit ==
    /\ urlDatabase = <<>>
    /\ nextId = NextIdInit
    /\ currentFilter = <<>>
    /\ submitDisabled = FALSE
    /\ shortenedUrlDisplay = <<>>
    /\ historyList = <<>>
    /\ statsText = <<>>
    /\ locationHash \in Hashes
    /\ pageLive = TRUE
    \* handleInitialRoute: the timer is set when the hash names a code
    /\ initialRoute = IF locationHash # <<>> /\ Len(locationHash) > 1
                      THEN <<SubSeq(locationHash, 2, Len(locationHash))>>
                      ELSE <<>>
    /\ pendingUI = <<>>
    /\ now = 0
    /\ lastCall = [op |-> "constructor", arg |-> <<>>, signal |-> None]
    /\ regLog = <<>>
    /\ hits = <<>>

Init ==
    /\ RegInit
    /\ encIn = <<>>
    /\ encOut = <<>>

hitsOf(h, shortCode) == IF shortCode \in DOMAIN h THEN h[shortCode] ELSE 0

\* the submit listener: shortenURL runs on the text raw of the input field;
\* a form whose submit button is disabled is not submitted
Submit(raw) ==
    LET r == shortenURL(urlDatabase, nextId, raw, now)
    IN  /\ pageLive
        /\ ~submitDisabled
        /\ r.error = NoError => nextId <= MaxRegs
        /\ urlDatabase' = r.db
        /\ nextId' = r.nextId
        /\ IF r.error = NoError
           THEN /\ submitDisabled' = TRUE
                /\ pendingUI' = Append(pendingUI, shortUrlOf(r.shortCode))
                /\ regLog' = Append(regLog, r.shortCode)
           ELSE /\ submitDisabled' = FALSE
                /\ UNCHANGED <<pendingUI, regLog>>
        /\ lastCall' = [op |-> "shortenURL", arg |-> raw,
                        signal |-> IF r.error = NoError THEN None ELSE r.error]
        /\ UNCHANGED <<currentFilter, shortenedUrlDisplay, historyList, statsText,
                       locationHash, pageLive, initialRoute, now, hits>>
        /\ UNCHANGED encVars

\* the 300ms timer of shortenURL fires: the clock has moved on
UITimer ==
    /\ pageLive
    /\ pendingUI # <<>>
    /\ shortenedUrlDisplay' = Head(pendingUI)
    /\ statsText' = updateStats(urlDatabase)
    /\ historyList' = renderHistory(urlDatabase, currentFilter, historyList)
    /\ submitDisabled' = FALSE
    /\ pendingUI' = Tail(pendingUI)
    /\ now' = now + 1
    /\ lastCall' = [op |-> "timer", arg |-> <<>>, signal |-> None]
    /\ UNCHANGED <<urlDatabase, nextId, currentFilter, locationHash, pageLive,
                   initialRoute, regLog, hits>>
    /\ UNCHANGED encVars

\* a call of redirectToOriginal(shortCode) by the handler op
Resolve(op, shortCode, popup) ==
    LET r == redirectToOriginal(urlDatabase, shortCode)
    IN  /\ r.found => sumClicks(urlDatabase) < MaxVisits
        /\ urlDatabase' = r.db
        /\ IF r.found
           THEN /\ statsText' = updateStats(r.db)
                /\ historyList' = renderHistory(r.db, currentFilter, historyList)
                /\ pageLive' = (popup # "Redirecting")
                /\ hits' = [c \in DOMAIN hits \cup {shortCode} |->
                               hitsOf(hits, c) + IF c = shortCode THEN 1 ELSE 0]
                /\ lastCall' = [op |-> op, arg |-> shortCode, signal |-> popup]
           ELSE /\ popup = "Opened"
                /\ lastCall' = [op |-> op, arg |-> shortCode, signal |-> NotFound]
                /\ UNCHANGED <<statsText, historyList, pageLive, hits>>
        /\ UNCHANGED <<nextId, currentFilter, submitDisabled, shortenedUrlDisplay,
                       pendingUI, now, regLog>>
        /\ UNCHANGED encVars

\* the click listener of testButton
TestButton(popup) ==
    /\ pageLive
    /\ Resolve("testButton", extractShortCode(shortenedUrlDisplay), popup)
    /\ UNCHANGED <<locationHash, initialRoute>>

\* handleHistoryAction for the button with data-action "test" of row i
HistoryAction(i, popup) ==
    /\ pageLive
    /\ i \in 1..Len(historyList)
    /\ Resolve("handleHistoryAction", historyList[i], popup)
    /\ UNCHANGED <<locationHash, initialRoute>>

\* a handler that looked a short code up with has() and left it at that
Ignore(op, shortCode) ==
    /\ lastCall' = [op |-> op, arg |-> shortCode, signal |-> None]
    /\ UNCHANGED <<urlDatabase, nextId, currentFilter, submitDisabled,
                   shortenedUrlDisplay, historyList, statsText, pageLive,
                   pendingUI, now, regLog, hits>>
    /\ UNCHANGED encVars

\* the hashchange listener: the hash became h, handleHashChange runs
HashChange(h, popup) ==
    /\ pageLive
    /\ h # locationHash
    /\ locationHash' = h
    /\ IF hashGuard(urlDatabase, h)
       THEN Resolve("handleHashChange", SubSeq(h, 2, Len(h)), popup)
       ELSE /\ popup = "Opened"
            /\ Ignore("handleHashChange",
                      IF h = <<>> THEN <<>> ELSE SubSeq(h, 2, Len(h)))
    /\ UNCHANGED initialRoute

\* the 100ms timer of handleInitialRoute
InitialRouteTimer(popup) ==
    /\ pageLive
    /\ initialRoute # <<>>
    /\ initialRoute' = <<>>
    /\ IF MapHas(urlDatabase, initialRoute[1])
       THEN Resolve("handleInitialRoute", initialRoute[1], popup)
       ELSE /\ popup = "Opened"
            /\ Ignore("handleInitialRoute", initialRoute[1])
    /\ UNCHANGED locationHash

\* the input listener of searchInput
Search(f) ==
    /\ pageLive
    /\ currentFilter' = toLowerCase(f)
    /\ historyList' = renderHistory(urlDatabase, toLowerCase(f), historyList)
    /\ lastCall' = [op |-> "search", arg |-> <<>>, signal |-> None]
    /\ UNCHANGED <<urlDatabase, nextId, submitDisabled, shortenedUrlDisplay,
                   statsText, locationHash, pageLive, initialRoute, pendingUI,
                   now, regLog, hits>>
    /\ UNCHANGED encVars

Next ==
    \/ \E raw \in RawInputs : Submit(raw)
    \/ UITimer
    \/ \E popup \in PopupOutcomes : TestButton(popup)
    \/ \E i \in 1..MaxRegs, popup \in PopupOutcomes : HistoryAction(i, popup)
    \/ \E h \in Hashes, popup \in PopupOutcomes : HashChange(h, popup)
    \/ \E popup \in PopupOutcomes : InitialRouteTimer(popup)
    \/ \E f \in FilterInputs : Search(f)

Spec == Init /\ [][Next]_vars

-----------------------------------------------------------------------------
(* encodeBase62 as a function of its argument *)

\* the registry as constructed, the page opened without a hash
RegIdle == RegInit /\ locationHash = <<>>

\* encodeBase62 applied to each argument
Encode ==
    /\ encOut = <<>>
    /\ encOut' = [i \in 1..Len(encIn) |-> encodeBase62(encIn[i])]
    /\ UNCHANGED <<encIn, regVars>>

\* one argument, 0..MaxN
EncInit ==
    /\ RegIdle
    /\ encIn \in { <<n>> : n \in 0..MaxN }
    /\ encOut = <<>>

EncSpec == EncInit /\ [][Encode]_vars

\* two positive arguments, around the steps from one symbol to two and from
\* two symbols to three
PairArgs ==
    (1..MaxPairN) \cup ((Base * Base - PairMargin)..(Base * Base + PairMargin))

PairInit ==
    /\ RegIdle
    /\ encIn \in { <<n1, n2>> : n1, n2 \in PairArgs }
    /\ encOut = <<>>

PairSpec == PairInit /\ [][Encode]_vars

-----------------------------------------------------------------------------
(* Reference notions the claims are stated with *)

\* the alphabet in the order 0-9, A-Z, a-z
RefAlphabet == Digits \o Upper \o Lower

RefRank(c) == (CHOOSE i \in 1..Len(RefAlphabet) : RefAlphabet[i] = c) - 1

\* the number a numeral over RefAlphabet denotes, most significant symbol first
RECURSIVE RefValue(_)
RefValue(s) ==
    IF s = <<>> THEN 0
    ELSE RefValue(SubSeq(s, 1, Len(s) - 1)) * Len(RefAlphabet) + RefRank(s[Len(s)])

\* s before t, symbol by symbol in alphabet order, for strings of one length
LexLess(s, t) ==
    \E i \in 1..Len(s) :
        /\ \A j \in 1..(i - 1) : s[j] = t[j]
        /\ RefRank(s[i]) < RefRank(t[i])

\* s before t in length-then-lexicographic order
ShortLexLess(s, t) == Len(s) < Len(t) \/ (Len(s) = Len(t) /\ LexLess(s, t))

RECURSIVE SumOver(_, _)
SumOver(S, f) ==
    IF S = {} THEN 0
    ELSE LET x == CHOOSE y \in S : TRUE IN f[x] + SumOver(S \ {x}, f)

\* the record stored under a key and the visit count by key
Record(m, k) == m[MapIndex(m, k)].val
Clicks(m) == [k \in MapKeys(m) |-> Record(m, k).clickCount]

Registered == Len(regLog') = Len(regLog) + 1

\* the step is a call of redirectToOriginal, or a hash or initial-route
\* lookup, of a short code the database does not hold
ResolvedMissing ==
    /\ lastCall'.op \in ResolveOps
    /\ lastCall'.op = "handleHashChange" => Len(locationHash') > 1
    /\ ~MapHas(urlDatabase, lastCall'.arg)

\* the step is a call of redirectToOriginal of a short code the database holds
ResolvedPresent ==
    /\ lastCall'.op \in ResolveOps
    /\ lastCall'.op = "handleHashChange" => Len(locationHash') > 1
    /\ MapHas(urlDatabase, lastCall'.arg)

RegistryUnchanged ==
    /\ urlDatabase' = urlDatabase
    /\ nextId' = nextId
    /\ updateStats(urlDatabase') = updateStats(urlDatabase)

-----------------------------------------------------------------------------
(* Claims *)

\* C1: the k-th successful registration is assigned encode(k); the first three
\* get "1", "2", "3", whatever failed submissions and resolves come between.
C1_KthAlias ==
    /\ \A k \in 1..Len(regLog) : regLog[k] = encodeBase62(k) /\ RefValue(regLog[k]) = k
    /\ Len(regLog) >= 3 => SubSeq(regLog, 1, 3) = << <<"1">>, <<"2">>, <<"3">> >>

C1_Witness ==
    /\ Len(regLog) = 3
    /\ sumClicks(urlDatabase) >= 2
    /\ lastCall.op = "shortenURL" /\ lastCall.signal = InvalidFormat

\* C2: the keys of the mapping are exactly encode(i), 1 <= i < nextId, the
\* record under encode(i) has id i, no two records share an id; a registration
\* adds one entry under a key that was not present.
C2_Keys ==
    /\ MapKeys(urlDatabase) = { encodeBase62(i) : i \in 1..(nextId - 1) }
    /\ Len(urlDatabase) = nextId - 1
    /\ \A i \in 1..(nextId - 1) : Record(urlDatabase, encodeBase62(i)).id = i
    /\ \A i, j \in 1..Len(urlDatabase) :
          i # j => /\ urlDatabase[i].val.id # urlDatabase[j].val.id
                   /\ urlDatabase[i].key # urlDatabase[j].key

C2_Insert ==
    Registered =>
        /\ ~MapHas(urlDatabase, regLog'[Len(regLog')])
        /\ MapHas(urlDatabase', regLog'[Len(regLog')])
        /\ Len(urlDatabase') = Len(urlDatabase) + 1

C2_UniqueKeys == []C2_Keys /\ [][C2_Insert]_vars

C2_Witness == Len(urlDatabase) = 3 /\ nextId = 4

\* C3: a record has visitCount 0 when registered and every resolve of a present
\* alias adds exactly 1: after the k-th resolve of an alias its visitCount is k.
C3_CountIsResolves ==
    \A i \in 1..Len(urlDatabase) :
        urlDatabase[i].val.clickCount = hitsOf(hits, urlDatabase[i].key)

C3_Step ==
    /\ Registered => Record(urlDatabase', regLog'[Len(regLog')]).clickCount = 0
    /\ ResolvedPresent =>
          /\ hitsOf(hits', lastCall'.arg) = hitsOf(hits, lastCall'.arg) + 1
          /\ Record(urlDatabase', lastCall'.arg).clickCount
               = Record(urlDatabase, lastCall'.arg).clickCount + 1

C3_VisitCount == []C3_CountIsResolves /\ [][C3_Step]_vars

C3_Witness ==
    /\ Len(urlDatabase) = 3
    /\ hitsOf(hits, <<"1">>) = 3 /\ urlDatabase[1].val.clickCount = 3
    /\ hitsOf(hits, <<"2">>) = 1
    /\ urlDatabase[3].val.clickCount = 0

\* C4 as stated: resolving an alias never registered, through the test button,
\* a history action or a hash change, yields NotFound and mutates nothing.
C4_NotFoundEverywhere ==
    [][ResolvedMissing => lastCall'.signal = NotFound /\ RegistryUnchanged]_vars

\* C4 amended: resolving an alias never registered mutates nothing; the test
\* button and the history action yield NotFound, a hash change and the initial
\* route look the code up first and yield nothing.
C4_Step ==
    ResolvedMissing =>
        /\ RegistryUnchanged
        /\ Clicks(urlDatabase') = Clicks(urlDatabase)
        /\ lastCall'.op \in {"testButton", "handleHistoryAction"}
              => lastCall'.signal = NotFound
        /\ lastCall'.op \in {"handleHashChange", "handleInitialRoute"}
              => lastCall'.signal = None

C4_MissingMutatesNothing == [][C4_Step]_vars

C4_Witness ==
    /\ lastCall.op = "testButton" /\ lastCall.signal = NotFound
    /\ Len(urlDatabase) >= 1 /\ sumClicks(urlDatabase) >= 1

\* C5: stats() reports totalAliases = the number of successful registrations
\* and totalVisits = the sum of visitCount over the records = the number of
\* resolves that found their alias.
C5_Stats ==
    /\ updateStats(urlDatabase)[1] = Len(regLog)
    /\ updateStats(urlDatabase)[2] = SumOver(MapKeys(urlDatabase), Clicks(urlDatabase))
    /\ updateStats(urlDatabase)[2] = SumOver(DOMAIN hits, hits)

C5_Witness ==
    /\ Len(regLog) = 3
    /\ SumOver(DOMAIN hits, hits) = 5
    /\ statsText = <<3, 5>>
    /\ \A i \in 1..3 : urlDatabase[i].val.clickCount >= 1

\* C6: encode(n) is the base-62 numeral of n over 0-9, A-Z, a-z, most
\* significant symbol first, without a leading "0"; encode(0) is "0".
C6_Numeral ==
    encOut # <<>> =>
        LET n == encIn[1]
            s == encOut[1]
        IN  /\ s # <<>>
            /\ Range(s) \subseteq Range(RefAlphabet)
            /\ RefValue(s) = n
            /\ n = 0 => s = <<"0">>
            /\ n >= 1 => s[1] # "0"

C6_Witness == encOut # <<>> /\ encIn[1] = 3844 /\ encOut[1] = <<"1", "0", "0">>

\* C7 as stated: encode(1) = "1", encode(62) = "10", encode(61) = "Z",
\* encode(10) = "A", encode(36) = "a".
C7_Examples ==
    encOut # <<>> =>
        /\ encIn[1] = 1 => encOut[1] = <<"1">>
        /\ encIn[1] = 62 => encOut[1] = <<"1", "0">>
        /\ encIn[1] = 61 => encOut[1] = <<"Z">>
        /\ encIn[1] = 10 => encOut[1] = <<"A">>
        /\ encIn[1] = 36 => encOut[1] = <<"a">>

\* C7 amended: encode(1) = "1", encode(62) = "10", encode(61) = "z" (the last
\* symbol of the alphabet; "Z" is encode(35)), encode(10) = "A", encode(36) = "a".
C7_ExamplesAmended ==
    encOut # <<>> =>
        /\ encIn[1] = 1 => encOut[1] = <<"1">>
        /\ encIn[1] = 62 => encOut[1] = <<"1", "0">>
        /\ encIn[1] = 61 => encOut[1] = <<"z">>
        /\ encIn[1] = 35 => encOut[1] = <<"Z">>
        /\ encIn[1] = 10 => encOut[1] = <<"A">>
        /\ encIn[1] = 36 => encOut[1] = <<"a">>

C7_Witness == encOut # <<>> /\ encIn[1] = 61 /\ Len(encOut[1]) = 1

\* C8: for positive n1 < n2, encode(n1) comes before encode(n2) in
\* length-then-lexicographic order; so encode is injective.
C8_Increasing ==
    encOut # <<>> =>
        /\ encIn[1] < encIn[2] => ShortLexLess(encOut[1], encOut[2])
        /\ encIn[1] # encIn[2] => encOut[1] # encOut[2]

C8_Witness ==
    /\ encOut # <<>>
    /\ encIn = <<61, 3844>>
    /\ Len(encOut[1]) = 1 /\ Len(encOut[2]) = 3

\* C9: a record is never deleted and its destination, createdAt and id never
\* change; only a resolve changes an existing record, by adding 1 to the
\* visitCount of the alias resolved, leaving the other records, the key set and
\* the counter alone; a registration leaves every existing record unchanged.
C9_Step ==
    /\ Len(urlDatabase') >= Len(urlDatabase)
    /\ \A i \in 1..Len(urlDatabase) :
          /\ urlDatabase'[i].key = urlDatabase[i].key
          /\ urlDatabase'[i].val.originalUrl = urlDatabase[i].val.originalUrl
          /\ urlDatabase'[i].val.createdAt = urlDatabase[i].val.createdAt
          /\ urlDatabase'[i].val.id = urlDatabase[i].val.id
          /\ \/ urlDatabase'[i] = urlDatabase[i]
             \/ /\ ResolvedPresent
                /\ lastCall'.arg = urlDatabase[i].key
                /\ urlDatabase'[i].val.clickCount = urlDatabase[i].val.clickCount + 1
    /\ ResolvedPresent => /\ MapKeys(urlDatabase') = MapKeys(urlDatabase)
                          /\ Len(urlDatabase') = Len(urlDatabase)
                          /\ nextId' = nextId
    /\ Registered => SubSeq(urlDatabase', 1, Len(urlDatabase)) = urlDatabase

C9_Frame == [][C9_Step]_vars

C9_Witness ==
    /\ Len(urlDatabase) = 3
    /\ urlDatabase[1].val.clickCount >= 1
    /\ urlDatabase[2].val.clickCount >= 1
    /\ lastCall.op \in ResolveOps /\ lastCall.arg = <<"2">>

\* C10: a submission that fails validation (EmptyInput for an input that trims
\* to nothing, InvalidFormat for a rejected one) reports the error and leaves
\* the mapping and the counter as they were, so the next alias is the same.
BlankInputs == { raw \in RawInputs : trim(raw) = <<>> }
RejectedInputs ==
    { raw \in RawInputs \ BlankInputs : ~isValidURL(normalizeURL(trim(raw))) }

C10_Step ==
    (lastCall'.op = "shortenURL" /\ lastCall'.arg \in BlankInputs \cup RejectedInputs)
    => /\ lastCall'.signal = IF lastCall'.arg \in BlankInputs THEN EmptyInput
                             ELSE InvalidFormat
       /\ urlDatabase' = urlDatabase
       /\ nextId' = nextId
       /\ encodeBase62(nextId') = encodeBase62(nextId)
       /\ regLog' = regLog

C10_FailedSubmit == [][C10_Step]_vars

C10_Witness ==
    /\ lastCall.op = "shortenURL" /\ lastCall.signal = EmptyInput
    /\ Len(regLog) = 2 /\ nextId = 3

====
